---- MODULE Spec2Model ----
(***************************************************************************)
(* M3U Processor backend (src/backend/main.py): the playlist store, the    *)
(* rule engine, the two background loops (auto_update_task,                *)
(* source_check_task), the probe (check_source) and the request handlers   *)
(* that touch playlists (generate, owner update/delete, info, manual check *)
(* and manual refresh).                                                    *)
(*                                                                         *)
(* Every `await` on the database or on the network is a suspension point   *)
(* of the asyncio event loop, so every handler is cut into one action per  *)
(* awaited statement.  The pool is created with autocommit=True, hence     *)
(* every SQL statement is committed on its own and `conn.commit()` changes *)
(* nothing.  The pool hands out at most maxsize connections and            *)
(* `db_pool.acquire()` has no timeout: a caller that finds none free waits *)
(* until one is released.                                                  *)
(***************************************************************************)
EXTENDS Integers, Sequences, FiniteSets, TLC

\* ------------------------------------------------------------------ bounds

\* Last second of the time line of the refresh runs (the clock starts at 0).
MaxTime == 61

\* Number of tokens uuid4 can hand out in one run.
MaxTokens == 2

\* Rows of check_history kept in one run.
MaxHistory == 3
\* Rules in the list of one call of apply_rules.
MaxRules == 2

\* Length of the document of one call of get_m3u_stats, in marks.
MaxLen == 4

\* Playlists generated in a run of the specifications of concurrent
\* operations on one playlist (SpecRace, SpecProbe, SpecCheck).
MaxShared == 1

\* check_playlist requests, beyond the one followed step by step, that a run
\* of SpecLive takes in.
MaxChecks == 10

\* ------------------------------------------------------- program constants

MAX_CONTENT_SIZE == 5 * 1024 * 1024

MIN_INTERVAL == 30

MAX_INTERVAL == 86400

DEFAULT_INTERVAL == 3600

REFRESH_SLEEP == 30

CHECK_SLEEP == 3600

CHECK_PERIOD == 24 * 3600

HISTORY_LIMIT == 10

POOL_MAXSIZE == 10

\* SQL NULL / Python None in a text column or an optional string.
NULL == "NULL"

\* SQL NULL / Python None in a timestamp or integer column.
NullInt == 0 - 1

\* ---------------------------------------------------------------- documents

\* The characters documents, patterns and replacements are written in.
\* "u00e9" is one character that UTF-8 encodes in two bytes; "\\" is one
\* backslash.
Chars == {"f", "F", "o", "O", "X", "1", "(", "\\", "u00e9", " "}

ByteWidth(c) == IF c = "u00e9" THEN 2 ELSE 1

RECURSIVE Utf8Len(_)
Utf8Len(s) == IF s = <<>> THEN 0 ELSE ByteWidth(Head(s)) + Utf8Len(Tail(s))

\* A document is a short head `text` followed by `fill` bytes of one-byte
\* filler that no rule pattern of the model matches (patterns never contain
\* the filler character), so a rule rewrites the head and keeps the filler.
Doc(text, fill) == [text |-> text, fill |-> fill]

\* len(content.encode('utf-8'))
Size(d) == Utf8Len(d.text) + d.fill

\* ------------------------------------------------------------- rule engine

\* class Rule
Rule(search, replace, is_regex, case_sensitive) ==
    [search |-> search, replace |-> replace,
     is_regex |-> is_regex, case_sensitive |-> case_sensitive]

\* Case folding of re.IGNORECASE on the model's characters.
Lower(c) == IF c = "F" THEN "f" ELSE IF c = "O" THEN "o" ELSE IF c = "X" THEN "x" ELSE c

\* Does the literal sequence `lits` match the start of `s`?
MatchAt(s, lits, ignorecase) ==
    /\ Len(s) >= Len(lits)
    /\ \A i \in 1..Len(lits) :
          IF ignorecase THEN Lower(s[i]) = Lower(lits[i]) ELSE s[i] = lits[i]

\* All non-overlapping occurrences of the non-empty `lits`, left to right,
\* replaced by `rep` (str.replace, and re.sub of a pattern of literals).
RECURSIVE ReplaceAll(_, _, _, _)
ReplaceAll(s, lits, rep, ignorecase) ==
    IF Len(s) < Len(lits) THEN s
    ELSE IF MatchAt(s, lits, ignorecase)
         THEN rep \o ReplaceAll(SubSeq(s, Len(lits) + 1, Len(s)), lits, rep, ignorecase)
         ELSE <<Head(s)>> \o ReplaceAll(Tail(s), lits, rep, ignorecase)

\* The outcome of compiling a pattern or a replacement template: the
\* literals it denotes, or re.error.
ReError == [ok |-> FALSE, lits |-> <<>>]

\* ASCII letters of the alphabet that are no escape of `re`.
BadEscapes == {"F", "o", "O", "X"}

\* re.compile(search) on the model's alphabet: "(" opens a group that is
\* never closed, "\" escapes the next character ("\f" is a form feed, "\1" a
\* reference to a group that does not exist, "\" + another ASCII letter a
\* bad escape, "\" at the end an error).
RECURSIVE ReCompile(_)
ReCompile(p) ==
    IF p = <<>> THEN [ok |-> TRUE, lits |-> <<>>]
    ELSE IF Head(p) = "(" THEN ReError
    ELSE IF Head(p) = "\\"
         THEN IF Len(p) = 1 \/ p[2] \in BadEscapes \/ p[2] = "1" THEN ReError
              ELSE LET rest == ReCompile(SubSeq(p, 3, Len(p)))
                       lit  == IF p[2] = "f" THEN "formfeed" ELSE p[2]
                   IN  IF rest.ok THEN [ok |-> TRUE, lits |-> <<lit>> \o rest.lits]
                       ELSE ReError
         ELSE LET rest == ReCompile(Tail(p))
              IN  IF rest.ok THEN [ok |-> TRUE, lits |-> <<Head(p)>> \o rest.lits]
                  ELSE ReError

\* The replacement template of re.sub for a pattern without groups: "\\" is
\* one backslash, "\f" a form feed, "\1" an invalid group reference, "\" +
\* another ASCII letter a bad escape, "\" + any other character both
\* characters, "\" at the end an error.
RECURSIVE ExpandTemplate(_)
ExpandTemplate(r) ==
    IF r = <<>> THEN [ok |-> TRUE, lits |-> <<>>]
    ELSE IF Head(r) = "\\"
         THEN IF Len(r) = 1 \/ r[2] \in BadEscapes \/ r[2] = "1" THEN ReError
              ELSE LET rest == ExpandTemplate(SubSeq(r, 3, Len(r)))
                       out  == IF r[2] = "f" THEN <<"formfeed">>
                               ELSE IF r[2] = "\\" THEN <<"\\">>
                               ELSE <<"\\", r[2]>>
                   IN  IF rest.ok THEN [ok |-> TRUE, lits |-> out \o rest.lits]
                       ELSE ReError
         ELSE LET rest == ExpandTemplate(Tail(r))
              IN  IF rest.ok THEN [ok |-> TRUE, lits |-> <<Head(r)>> \o rest.lits]
                  ELSE ReError

\* re.escape(search): every character of `search` taken literally.
ReEscape(search) == [ok |-> TRUE, lits |-> search]

\* pattern.sub(replace, content): re.error (ok = FALSE) when the pattern or
\* the template does not compile, else the substituted text.
ReSub(pattern, replace, content, ignorecase) ==
    LET tpl == ExpandTemplate(replace)
    IN  IF ~pattern.ok \/ ~tpl.ok THEN [ok |-> FALSE, text |-> content]
        ELSE [ok |-> TRUE, text |-> ReplaceAll(content, pattern.lits, tpl.lits, ignorecase)]

\* One iteration of the loop of apply_rules on the text `content`:
\* [raised |-> TRUE] when re.error escapes the function.
ApplyRule(content, rule) ==
    IF rule.search = <<>> THEN [raised |-> FALSE, text |-> content]
    ELSE IF rule.is_regex
         THEN LET r == ReSub(ReCompile(rule.search), rule.replace, content,
                             ~rule.case_sensitive)
              IN  [raised |-> FALSE, text |-> IF r.ok THEN r.text ELSE content]
         ELSE IF rule.case_sensitive
              THEN [raised |-> FALSE,
                    text |-> ReplaceAll(content, rule.search, rule.replace, FALSE)]
              ELSE LET r == ReSub(ReEscape(rule.search), rule.replace, content, TRUE)
                   IN  [raised |-> ~r.ok, text |-> r.text]

RECURSIVE ApplyRulesText(_, _)
ApplyRulesText(content, rules) ==
    IF rules = <<>> THEN [raised |-> FALSE, text |-> content]
    ELSE LET one == ApplyRule(content, Head(rules))
         IN  IF one.raised THEN one ELSE ApplyRulesText(one.text, Tail(rules))

\* apply_rules(content, rules) on a document: the head is rewritten, the
\* filler is kept.
apply_rules(content, rules) ==
    LET r == ApplyRulesText(content.text, rules)
    IN  [raised |-> r.raised, doc |-> Doc(r.text, content.fill)]

\* json.dumps([r.dict() for r in data.rules]) if data.rules else None
RulesJson(rules) == [null |-> rules = <<>>, json |-> rules]

\* json.loads(playlist['rules_json'])
JsonLoads(rules_json) == rules_json.json

\* -------------------------------------------------------------------- stats

\* What a document is made of as far as get_m3u_stats goes: the tag in two
\* spellings (each one mark), the line feed, and other text.
StatsMarks == {"#EXTINF:", "#extinf:", "\n", "tv"}

\* re.IGNORECASE on the tag.
IsExtinf(m) == m \in {"#EXTINF:", "#extinf:"}

\* len(re.findall(r'#EXTINF:', content, re.IGNORECASE))
count_channels(content) == Cardinality({i \in 1..Len(content) : IsExtinf(content[i])})

\* len(content.split('\n'))
SplitLines(content) == 1 + Cardinality({i \in 1..Len(content) : content[i] = "\n"})

\* get_m3u_stats(content): the fields "channels" and "lines".
get_m3u_stats(content) ==
    [channels |-> count_channels(content), lines |-> SplitLines(content)]

\* -------------------------------------------------------------------- state

VARIABLES
    now,            \* NOW(): the clock of the store, in seconds
    issued,         \* the tokens uuid4 has handed out
    playlists,      \* table playlists: token -> row
    check_history,  \* table check_history, in insertion (id) order
    rpc,            \* auto_update_task: where the loop is
    rqueue,         \* auto_update_task: rows of `playlists` left in the for loop
    rres,           \* auto_update_task: outcome of the fetch of the current row
    apc,            \* source_check_task: where the loop is
    aqueue,         \* source_check_task: rows left in the for loop
    aerr,           \* source_check_task: the exception its `except` caught
    probe,          \* check_source: one invocation per caller
    mpc,            \* refresh_playlist: where the handler is
    msnap,          \* refresh_playlist: the row it selected
    mres,           \* refresh_playlist: outcome of its fetch
    mresp,          \* refresh_playlist: the last response to the caller
    cpc,            \* check_playlist: where the handler is
    cresp,          \* check_playlist: the last response to the caller
    checks,         \* check_playlist: per token, further requests in flight
    ipc,            \* get_playlist_info: where the handler is
    iview,          \* get_playlist_info: the row it selected
    iresp,          \* get_playlist_info: the last response to the caller
    call,           \* a call of a helper function: its arguments and its result
    sAtt,           \* history: per token, the last refresh attempt of the loop
    mAtt            \* history: the last attempt of refresh_playlist

vars == <<now, issued, playlists, check_history, rpc, rqueue, rres, apc, aqueue, aerr,
          probe, mpc, msnap, mres, mresp, cpc, cresp, checks, ipc, iview, iresp, call, sAtt, mAtt>>

storeVars == <<issued, playlists, check_history>>
refreshLoopVars == <<rpc, rqueue, rres>>
checkLoopVars == <<apc, aqueue, aerr>>
manualRefreshVars == <<mpc, msnap, mres, mresp>>
manualCheckVars == <<cpc, cresp, checks>>
infoVars == <<ipc, iview, iresp>>
historyVars == <<sAtt, mAtt>>

Tokens == 1..MaxTokens

\* The callers of check_source: the background task generate adds for token
\* t is caller t, the availability loop is TickCall, check_playlist is
\* ManualCall.
TickCall == 0
ManualCall == MaxTokens + 1
Callers == 0..(MaxTokens + 1)

\* --------------------------------------------------------- connection pool

RECURSIVE SumOver(_, _)
SumOver(f, S) ==
    IF S = {} THEN 0
    ELSE LET x == CHOOSE y \in S : TRUE
         IN  f[x] + SumOver(f, S \ {x})

\* The connections that are out of db_pool.  get_db keeps one for the whole
\* of a request; a tick of auto_update_task keeps one from its query to the
\* end of its for loop, a tick of source_check_task likewise; check_source
\* takes one of its own for its UPDATE and its INSERT.  A background task
\* runs after the connection of its request is back in the pool.
InUse ==
    (IF rpc \in {"fetch", "store", "record_error"} THEN 1 ELSE 0)
    + (IF apc = "probe" THEN 1 ELSE 0)
    + Cardinality({c \in Callers : probe[c].pc = "insert"})
    + (IF mpc /= "idle" THEN 1 ELSE 0)
    + (IF cpc /= "idle" THEN 1 ELSE 0)
    + (IF ipc /= "idle" THEN 1 ELSE 0)
    + SumOver(checks, Tokens)

\* `async with db_pool.acquire() as conn` goes on: a connection is free, or
\* the pool may open one more.  Otherwise the caller waits.
Acquire == InUse < POOL_MAXSIZE

\* ------------------------------------------------------------------- store

\* INSERT INTO playlists ... (generate_playlist) with the column defaults of
\* CREATE TABLE playlists.
NewRow(user_id, content, original, rules_json, source_url, name, auto_update, auto_update_interval, show_on_board) ==
    [user_id |-> user_id, content_m3u |-> content, original_content |-> original,
     rules_json |-> rules_json, source_url |-> source_url, name |-> name,
     auto_update |-> auto_update, auto_update_interval |-> auto_update_interval,
     last_update_at |-> NullInt, update_error |-> NULL,
     show_on_board |-> show_on_board,
     last_status |-> "UNKNOWN", last_check_at |-> NullInt, last_error |-> NULL,
     created_at |-> now]

\* UPDATE playlists SET <fields of `changes`> WHERE token = t: a statement
\* on a token without a row changes nothing.
UpdateRow(t, changes) ==
    IF t \in DOMAIN playlists
    THEN [playlists EXCEPT ![t] =
            [f \in DOMAIN playlists[t] |->
                IF f \in DOMAIN changes THEN changes[f] ELSE playlists[t][f]]]
    ELSE playlists

\* A set of tokens as a list, in primary key order (the order in which a
\* SELECT without ORDER BY returns the rows of `playlists`).
RECURSIVE InKeyOrder(_)
InKeyOrder(ts) ==
    IF ts = {} THEN <<>>
    ELSE LET t == CHOOSE x \in ts : \A y \in ts : x <= y
         IN  <<t>> \o InKeyOrder(ts \ {t})

\* Python truthiness of an optional string: None and '' are false.
Truthy(str) == str /= NULL /\ str /= ""

\* ----------------------------------------------------------------- network

\* What a handler holds after its request: `body` is response.text, `doc` the
\* content to store, `err` is str(e) of the exception caught.
NoDoc == Doc(<<>>, 0)
Failure(err) == [ok |-> FALSE, body |-> NoDoc, doc |-> NoDoc, err |-> err]
Success(doc) == [ok |-> TRUE, body |-> doc, doc |-> doc, err |-> NULL]
NoResult == Failure(NULL)

\* str(e) of an exception of httpx, named by its class.  A timeout carries
\* no message: its str(e) is ''.  Of the others the message is written as
\* the name.
Timeouts == {"ConnectTimeout", "ReadTimeout", "WriteTimeout", "PoolTimeout"}

StrOf(exc) == IF exc \in Timeouts THEN "" ELSE exc

\* The surroundings of a run: the documents the source may serve (`docs`),
\* the exceptions a request may raise (`errors`), the status
\* codes a HEAD may come back with (`codes`), the seconds a request may take
\* on the clock's scale (`delays`; the timeout is 30 s), and
\* the time line: it ends at `end`, and a run that stops there (`stop`)
\* takes no step across it, while a run that goes on keeps the clock at
\* `end`.
World(docs, errors, codes, delays, end, stop) ==
    [docs |-> docs, errors |-> errors, codes |-> codes, delays |-> delays,
     end |-> end, stop |-> stop]

\* client.get(url) followed by raise_for_status() and response.text: a
\* document, or an exception.  '' is no URL httpx can request.
FetchOutcomes(url, w) ==
    IF url = "" THEN {Failure(StrOf("UnsupportedProtocol"))}
    ELSE {Success(d) : d \in w.docs} \cup {Failure(StrOf(e)) : e \in w.errors}

\* `d` seconds pass.
Elapse(d, w) ==
    /\ w.stop => now + d <= w.end
    /\ now' = IF now + d <= w.end THEN now + d ELSE w.end

\* The body of `async with httpx.AsyncClient(...)` in auto_update_task and
\* refresh_playlist up to the UPDATE: the fetched document with the stored
\* rules applied, or the exception raised on the way.
Refetched(outcome, rules_json) ==
    IF ~outcome.ok THEN outcome
    ELSE IF rules_json.null THEN outcome
    ELSE LET r == apply_rules(outcome.doc, JsonLoads(rules_json))
         IN  IF r.raised THEN [Failure("re.error") EXCEPT !.body = outcome.doc]
             ELSE [outcome EXCEPT !.doc = r.doc]

\* --------------------------------------------------------------------- Init

IdleProbe == [pc |-> "idle", token |-> 0, url |-> NULL,
              status |-> "UNKNOWN", http_code |-> NullInt, error |-> NULL]

NoSnap == [token |-> 0, source_url |-> NULL, rules_json |-> RulesJson(<<>>)]

\* What get_playlist_info selects of a row (everything but the contents, the
\* rules and the owner).
InfoFields == {"name", "source_url", "show_on_board", "last_status", "last_check_at",
               "last_error", "created_at", "auto_update", "auto_update_interval",
               "last_update_at", "update_error"}

NoView == [token |-> 0, row |-> [f \in InfoFields |-> NULL]]

NoInfo == [code |-> "none", playlist |-> NoView, check_history |-> << >>]

NoCheckResponse == [code |-> "none", status |-> "UNKNOWN", http_code |-> NullInt,
                    error |-> NULL]

\* A refresh attempt as the history variables keep it: in flight or done,
\* what it had to store, the NOW() of its write, and whether an attempt of
\* the other kind on the same token was in flight together with it.
NoAttempt == [token |-> 0, phase |-> "none", ok |-> FALSE, doc |-> NoDoc, err |-> NULL,
              at |-> NullInt, raced |-> FALSE]

\* No helper function is under way.
NoCall == [fn |-> "none", pc |-> "none", content |-> << >>, rules |-> << >>,
           text |-> << >>, stats |-> [channels |-> 0, lines |-> 0]]

\* The state after lifespan() has run init_db and created the two tasks: the
\* tables are empty and both loops are about to run their first query.
Started ==
    /\ now = 0
    /\ issued = {}
    /\ playlists = << >>
    /\ check_history = << >>
    /\ rpc = "query" /\ rqueue = << >> /\ rres = NoResult
    /\ apc = "query" /\ aqueue = << >> /\ aerr = NULL
    /\ probe = [c \in Callers |-> IdleProbe]
    /\ mpc = "idle" /\ msnap = NoSnap /\ mres = NoResult /\ mresp = "none"
    /\ cpc = "idle" /\ cresp = NoCheckResponse
    /\ checks = [t \in Tokens |-> 0]
    /\ ipc = "idle" /\ iview = NoView /\ iresp = NoInfo
    /\ sAtt = [t \in Tokens |-> NoAttempt]
    /\ mAtt = NoAttempt

Init == Started /\ call = NoCall

\* ----------------------------------------------------- generate_playlist

GenerateRequest(content, rules, source_url, name, auto_update, auto_update_interval, show_on_board) ==
    [content |-> content, rules |-> rules, source_url |-> source_url,
     name |-> name, auto_update |-> auto_update,
     auto_update_interval |-> auto_update_interval,
     show_on_board |-> show_on_board]

\* The checks of generate_playlist that answer 400 before anything is
\* written.
GenerateRejects(data) ==
    \/ Size(data.content) > MAX_CONTENT_SIZE
    \/ /\ data.auto_update
       /\ \/ data.auto_update_interval < MIN_INTERVAL
          \/ data.auto_update_interval > MAX_INTERVAL

\* POST /api/generate by `user` (NullInt: anonymous or not approved).  The
\* request is rejected (400), or apply_rules raises (500), or one row is
\* inserted under a fresh token and, with a source URL, check_source is
\* added as a background task.
generate_playlist(data, user) ==
    /\ Acquire
    /\ ~GenerateRejects(data)
    /\ \E token \in Tokens \ issued :
         LET processed == apply_rules(data.content, data.rules)
         IN  /\ ~processed.raised
             /\ issued' = issued \cup {token}
             /\ playlists' = (token :> NewRow(user, processed.doc, data.content,
                                              RulesJson(data.rules), data.source_url,
                                              IF Truthy(data.name) THEN data.name
                                              ELSE "Playlist",
                                              data.auto_update,
                                              data.auto_update_interval,
                                              data.show_on_board)) @@ playlists
             /\ probe' = IF Truthy(data.source_url)
                         THEN [probe EXCEPT ![token] =
                                 [IdleProbe EXCEPT !.pc = "head", !.token = token,
                                                   !.url = data.source_url]]
                         ELSE probe
    /\ UNCHANGED <<now, check_history, refreshLoopVars, checkLoopVars,
                   manualRefreshVars, manualCheckVars, infoVars>>
    /\ UNCHANGED <<call, historyVars>>

\* ------------------------------------------- update / delete by the owner

PlaylistUpdate(name, show_on_board, auto_update, auto_update_interval) ==
    [name |-> name, show_on_board |-> show_on_board,
     auto_update |-> auto_update, auto_update_interval |-> auto_update_interval]

\* Optional[bool] of the request: "None", "True" or "False".
OptBools == {"None", "True", "False"}

\* The column assignments update_my_playlist collects.
UpdateChanges(data) ==
    LET fields == {f \in {"name", "show_on_board", "auto_update"} : data[f] /= "None"}
                  \cup (IF data.auto_update_interval /= NullInt
                        THEN {"auto_update_interval"} ELSE {})
    IN  [f \in fields |->
            IF f = "name" THEN data.name
            ELSE IF f = "auto_update_interval" THEN data.auto_update_interval
            ELSE data[f] = "True"]

\* PUT /api/my/playlists/{token} by the approved user `user`: 404 without a
\* row of that owner, 400 on an interval out of the domain, else one UPDATE
\* of the fields given.
update_my_playlist(token, data, user) ==
    /\ Acquire
    /\ token \in DOMAIN playlists
    /\ playlists[token].user_id = user
    /\ ~ /\ data.auto_update_interval /= NullInt
         /\ \/ data.auto_update_interval < MIN_INTERVAL
            \/ data.auto_update_interval > MAX_INTERVAL
    /\ playlists' = UpdateRow(token, UpdateChanges(data))
    /\ UNCHANGED <<now, issued, check_history, refreshLoopVars, checkLoopVars, probe,
                   manualRefreshVars, manualCheckVars, infoVars>>
    /\ UNCHANGED <<call, historyVars>>

\* DELETE /api/my/playlists/{token}: the row goes, and with it (ON DELETE
\* CASCADE) its rows of check_history.
delete_my_playlist(token, user) ==
    /\ Acquire
    /\ token \in DOMAIN playlists
    /\ playlists[token].user_id = user
    /\ playlists' = [t \in DOMAIN playlists \ {token} |-> playlists[t]]
    /\ check_history' = SelectSeq(check_history, LAMBDA h : h.token /= token)
    /\ UNCHANGED <<now, issued, refreshLoopVars, checkLoopVars, probe,
                   manualRefreshVars, manualCheckVars, infoVars>>
    /\ UNCHANGED <<call, historyVars>>

\* ------------------------------------------------------- history variables

\* A refresh attempt of the loop on token t is in flight from the moment
\* its client.get() is issued until its UPDATE; one of refresh_playlist
\* from its SELECT until its UPDATE.
sFlying(t) == rpc \in {"fetch", "store", "record_error"} /\ Head(rqueue).token = t
mFlying(t) == mpc /= "idle" /\ msnap.token = t

\* sAtt and mAtt record the steps above and are read by no action; every
\* step of the loop and of refresh_playlist ends with RecordAttempts.
RecordAttempts ==
    LET sStarts(t) == rpc' = "fetch" /\ rpc /= "fetch" /\ Head(rqueue').token = t
        sWrites(t) == sFlying(t) /\ rpc /= "fetch" /\ rres' = NoResult
        sAborts(t) == sFlying(t) /\ rpc = "record_error" /\ rres' /= NoResult
        mStarts    == mpc = "idle" /\ mpc' = "fetch"
        mWrites    == mpc \in {"store", "record_error"} /\ mresp' \in {"200", "400"}
        mAborts    == mpc = "record_error" /\ mresp' = "500"
    IN  /\ UNCHANGED call
        /\ sAtt' = [t \in Tokens |->
                      IF sWrites(t)
                      THEN [token |-> t, phase |-> "done", ok |-> rres.ok, doc |-> rres.doc,
                            err |-> rres.err, at |-> now, raced |-> sAtt[t].raced]
                      ELSE IF sAborts(t) THEN NoAttempt
                      ELSE IF sStarts(t)
                           THEN [NoAttempt EXCEPT !.token = t, !.phase = "flying",
                                                  !.raced = mFlying(t)]
                      ELSE IF mStarts /\ msnap'.token = t /\ sFlying(t)
                           THEN [sAtt[t] EXCEPT !.raced = TRUE]
                      ELSE sAtt[t]]
        /\ mAtt' = IF mWrites
                   THEN [token |-> msnap.token, phase |-> "done", ok |-> mres.ok,
                         doc |-> mres.doc, err |-> mres.err, at |-> now,
                         raced |-> mAtt.raced]
                   ELSE IF mAborts THEN NoAttempt
                   ELSE IF mStarts
                        THEN [NoAttempt EXCEPT !.token = msnap'.token, !.phase = "flying",
                                               !.raced = sFlying(msnap'.token)]
                   ELSE IF \E t \in Tokens : sStarts(t) /\ mFlying(t)
                        THEN [mAtt EXCEPT !.raced = TRUE]
                   ELSE mAtt

\* -------------------------------------------------------- auto_update_task

\* The WHERE clause of the query of auto_update_task.
DueForUpdate(row) ==
    /\ row.auto_update
    /\ row.source_url /= NULL
    /\ \/ row.last_update_at = NullInt
       \/ row.last_update_at < now - row.auto_update_interval

\* SELECT token, source_url, rules_json ... of auto_update_task.
Snapshot(t) == [token |-> t, source_url |-> playlists[t].source_url,
                rules_json |-> playlists[t].rules_json]

SelectDueForUpdate ==
    LET due == InKeyOrder({t \in DOMAIN playlists : DueForUpdate(playlists[t])})
    IN  [i \in 1..Len(due) |-> Snapshot(due[i])]

\* After one iteration of `for playlist in playlists`.
AfterRefreshOf(queue) == IF Len(queue) > 1 THEN "fetch" ELSE "sleep"

\* The tick's query.
R_Query ==
    /\ rpc = "query"
    /\ Acquire
    /\ rqueue' = SelectDueForUpdate
    /\ rpc' = IF rqueue' = << >> THEN "sleep" ELSE "fetch"
    /\ rres' = NoResult
    /\ UNCHANGED <<now, storeVars, checkLoopVars, probe,
                   manualRefreshVars, manualCheckVars, infoVars>>
    /\ RecordAttempts

\* The pool (while it opens a connection) or the query raises: the outer
\* `except` prints it.
R_QueryFails ==
    /\ rpc = "query"
    /\ Acquire
    /\ rpc' = "sleep"
    /\ rres' = Failure("OperationalError")
    /\ UNCHANGED <<now, storeVars, rqueue, checkLoopVars, probe,
                   manualRefreshVars, manualCheckVars, infoVars>>
    /\ RecordAttempts

\* client.get() of the current row returns or raises, and the stored rules
\* are applied.
R_Fetch(w) ==
    /\ rpc = "fetch"
    /\ \E d \in w.delays, o \in FetchOutcomes(Head(rqueue).source_url, w) :
         /\ Elapse(d, w)
         /\ rres' = Refetched(o, Head(rqueue).rules_json)
         /\ rpc' = IF rres'.ok THEN "store" ELSE "record_error"
    /\ UNCHANGED <<storeVars, rqueue, checkLoopVars, probe,
                   manualRefreshVars, manualCheckVars, infoVars>>
    /\ RecordAttempts

\* The same UPDATE without `update_error = NULL`.
R_StoreKeepsError ==
    /\ rpc = "store"
    /\ playlists' = UpdateRow(Head(rqueue).token,
                              [content_m3u |-> rres.doc, last_update_at |-> now])
    /\ rqueue' = Tail(rqueue)
    /\ rpc' = AfterRefreshOf(rqueue)
    /\ rres' = NoResult
    /\ UNCHANGED <<now, issued, check_history, checkLoopVars, probe,
                   manualRefreshVars, manualCheckVars, infoVars>>
    /\ RecordAttempts

\* UPDATE playlists SET content_m3u, last_update_at = NOW(), update_error =
\* NULL of the `try` block.
R_Store ==
    /\ rpc = "store"
    /\ playlists' = UpdateRow(Head(rqueue).token,
                              [content_m3u |-> rres.doc, last_update_at |-> now,
                               update_error |-> NULL])
    /\ rqueue' = Tail(rqueue)
    /\ rpc' = AfterRefreshOf(rqueue)
    /\ rres' = NoResult
    /\ UNCHANGED <<now, issued, check_history, checkLoopVars, probe,
                   manualRefreshVars, manualCheckVars, infoVars>>
    /\ RecordAttempts

\* That UPDATE raises: the inner `except` takes over with the store's error.
R_StoreFails ==
    /\ rpc = "store"
    /\ rres' = Failure("OperationalError")
    /\ rpc' = "record_error"
    /\ UNCHANGED <<now, storeVars, rqueue, checkLoopVars, probe,
                   manualRefreshVars, manualCheckVars, infoVars>>
    /\ RecordAttempts

\* The same UPDATE without `last_update_at = NOW()`.
R_RecordErrorOnly ==
    /\ rpc = "record_error"
    /\ playlists' = UpdateRow(Head(rqueue).token, [update_error |-> rres.err])
    /\ rqueue' = Tail(rqueue)
    /\ rpc' = AfterRefreshOf(rqueue)
    /\ rres' = NoResult
    /\ UNCHANGED <<now, issued, check_history, checkLoopVars, probe,
                   manualRefreshVars, manualCheckVars, infoVars>>
    /\ RecordAttempts

\* UPDATE playlists SET update_error = str(e), last_update_at = NOW() of the
\* inner `except`.
R_RecordError ==
    /\ rpc = "record_error"
    /\ playlists' = UpdateRow(Head(rqueue).token,
                              [update_error |-> rres.err, last_update_at |-> now])
    /\ rqueue' = Tail(rqueue)
    /\ rpc' = AfterRefreshOf(rqueue)
    /\ rres' = NoResult
    /\ UNCHANGED <<now, issued, check_history, checkLoopVars, probe,
                   manualRefreshVars, manualCheckVars, infoVars>>
    /\ RecordAttempts

\* The UPDATE of the inner `except` raises: the exception leaves the for
\* loop and the outer `except` prints it.
R_RecordErrorFails ==
    /\ rpc = "record_error"
    /\ rqueue' = << >>
    /\ rpc' = "sleep"
    /\ rres' = Failure("OperationalError")
    /\ UNCHANGED <<now, storeVars, checkLoopVars, probe,
                   manualRefreshVars, manualCheckVars, infoVars>>
    /\ RecordAttempts

\* await asyncio.sleep(30)
R_Sleep(w) ==
    /\ rpc = "sleep"
    /\ Elapse(REFRESH_SLEEP, w)
    /\ rpc' = "query"
    /\ UNCHANGED <<storeVars, rqueue, rres, checkLoopVars, probe,
                   manualRefreshVars, manualCheckVars, infoVars>>
    /\ RecordAttempts

\* -------------------------------------------------------- refresh_playlist

\* POST /api/playlist/{token}/refresh: the SELECT and the two checks.
M_Begin(token) ==
    /\ mpc = "idle"
    /\ Acquire
    /\ mres' = NoResult
    /\ IF token \notin DOMAIN playlists
       THEN mresp' = "404" /\ UNCHANGED <<mpc, msnap>>
       ELSE IF ~Truthy(playlists[token].source_url)
            THEN mresp' = "400 No source URL configured" /\ UNCHANGED <<mpc, msnap>>
            ELSE mpc' = "fetch" /\ msnap' = Snapshot(token) /\ mresp' = "none"
    /\ UNCHANGED <<now, storeVars, refreshLoopVars, checkLoopVars, probe,
                   manualCheckVars, infoVars>>
    /\ RecordAttempts

\* client.get() returns or raises, and the stored rules are applied.
M_Fetch(w) ==
    /\ mpc = "fetch"
    /\ \E d \in w.delays, o \in FetchOutcomes(msnap.source_url, w) :
         /\ Elapse(d, w)
         /\ mres' = Refetched(o, msnap.rules_json)
         /\ mpc' = IF mres'.ok THEN "store" ELSE "record_error"
    /\ UNCHANGED <<storeVars, msnap, mresp, refreshLoopVars, checkLoopVars, probe,
                   manualCheckVars, infoVars>>
    /\ RecordAttempts

\* UPDATE playlists SET content_m3u, last_update_at = NOW(), update_error =
\* NULL, then the 200 response.
M_Store ==
    /\ mpc = "store"
    /\ playlists' = UpdateRow(msnap.token,
                              [content_m3u |-> mres.doc, last_update_at |-> now,
                               update_error |-> NULL])
    /\ mpc' = "idle" /\ msnap' = NoSnap /\ mres' = NoResult
    /\ mresp' = "200"
    /\ UNCHANGED <<now, issued, check_history, refreshLoopVars,
                   checkLoopVars, probe, manualCheckVars, infoVars>>
    /\ RecordAttempts

\* That UPDATE raises: the `except` takes over with the store's error.
M_StoreFails ==
    /\ mpc = "store"
    /\ mres' = Failure("OperationalError")
    /\ mpc' = "record_error"
    /\ UNCHANGED <<now, storeVars, msnap, mresp, refreshLoopVars, checkLoopVars, probe,
                   manualCheckVars, infoVars>>
    /\ RecordAttempts

\* UPDATE playlists SET update_error = str(e) of the `except`, then the 400
\* response.
M_RecordError ==
    /\ mpc = "record_error"
    /\ playlists' = UpdateRow(msnap.token, [update_error |-> mres.err])
    /\ mpc' = "idle" /\ msnap' = NoSnap /\ mres' = NoResult
    /\ mresp' = "400"
    /\ UNCHANGED <<now, issued, check_history, refreshLoopVars,
                   checkLoopVars, probe, manualCheckVars, infoVars>>
    /\ RecordAttempts

\* The UPDATE of the `except` raises: the handler ends with a 500.
M_RecordErrorFails ==
    /\ mpc = "record_error"
    /\ mpc' = "idle" /\ msnap' = NoSnap /\ mres' = NoResult
    /\ mresp' = "500"
    /\ UNCHANGED <<now, storeVars, refreshLoopVars, checkLoopVars, probe,
                   manualCheckVars, infoVars>>
    /\ RecordAttempts

\* ------------------------------------------------------------ check_source

\* The exceptions client.head() can raise: those of the transport
\* (raise_for_status is not called).
HeadErrors == {"ConnectTimeout", "ConnectError", "ReadTimeout"}

\* The `try` block of check_source: (status, http_code, error).
Probed(status_code) ==
    [status |-> IF status_code = 200 THEN "OK" ELSE "FAIL",
     http_code |-> status_code,
     error |-> IF status_code = 200 THEN NULL ELSE "HTTP " \o ToString(status_code)]

\* The `except` block of check_source.
ProbeRaised(err) == [status |-> "FAIL", http_code |-> NullInt, error |-> err]

HeadOutcomes(url, w) ==
    IF url = "" THEN {ProbeRaised(StrOf("UnsupportedProtocol"))}
    ELSE {Probed(code) : code \in w.codes}
         \cup {ProbeRaised(StrOf(e)) : e \in w.errors \cap HeadErrors}

\* check_source(token, url) is entered: client.head() is in flight.
StartProbe(token, url) ==
    [IdleProbe EXCEPT !.pc = "head", !.token = token, !.url = url]

\* check_source called by `c` returns (or raises) to its caller: the
\* availability loop goes on with the next row (or leaves the for loop on an
\* exception), check_playlist answers, a background task just ends.
Return(c, raised) ==
    /\ IF c = TickCall
       THEN /\ aqueue' = IF raised THEN << >> ELSE Tail(aqueue)
            /\ aerr' = IF raised THEN "OperationalError" ELSE aerr
            /\ apc' = IF aqueue' = << >> THEN "sleep" ELSE "probe"
            /\ probe' = [probe EXCEPT ![c] =
                           IF aqueue' = << >> THEN IdleProbe
                           ELSE StartProbe(Head(aqueue').token, Head(aqueue').source_url)]
       ELSE /\ probe' = [probe EXCEPT ![c] = IdleProbe]
            /\ UNCHANGED checkLoopVars
    /\ IF c = ManualCall
       THEN /\ cpc' = "idle"
            /\ checks' = checks
            /\ cresp' = IF raised THEN [NoCheckResponse EXCEPT !.code = "500"]
                        ELSE [code |-> "200", status |-> probe[c].status,
                              http_code |-> probe[c].http_code,
                              error |-> probe[c].error]
       ELSE UNCHANGED manualCheckVars

\* client.head(url, follow_redirects=True) returns or raises.
P_Head(c, w) ==
    /\ probe[c].pc = "head"
    /\ \E d \in w.delays, o \in HeadOutcomes(probe[c].url, w) :
         /\ Elapse(d, w)
         /\ probe' = [probe EXCEPT ![c] =
                        [@ EXCEPT !.pc = "update", !.status = o.status,
                                  !.http_code = o.http_code, !.error = o.error]]
    /\ UNCHANGED <<storeVars, refreshLoopVars, checkLoopVars, manualRefreshVars,
                   manualCheckVars, infoVars>>
    /\ UNCHANGED <<call, historyVars>>

\* The same UPDATE with `last_update_at = NOW()` among its assignments.
P_UpdateTouches(c) ==
    /\ probe[c].pc = "update"
    /\ Acquire
    /\ playlists' = UpdateRow(probe[c].token,
                              [last_status |-> probe[c].status, last_check_at |-> now,
                               last_error |-> probe[c].error, last_update_at |-> now])
    /\ probe' = [probe EXCEPT ![c].pc = "insert"]
    /\ UNCHANGED <<now, issued, check_history, refreshLoopVars, checkLoopVars,
                   manualRefreshVars, manualCheckVars, infoVars>>
    /\ UNCHANGED <<call, historyVars>>

\* check_source has its connection; UPDATE playlists SET last_status,
\* last_check_at = NOW(), last_error.
P_Update(c) ==
    /\ probe[c].pc = "update"
    /\ Acquire
    /\ playlists' = UpdateRow(probe[c].token,
                              [last_status |-> probe[c].status, last_check_at |-> now,
                               last_error |-> probe[c].error])
    /\ probe' = [probe EXCEPT ![c].pc = "insert"]
    /\ UNCHANGED <<now, issued, check_history, refreshLoopVars, checkLoopVars,
                   manualRefreshVars, manualCheckVars, infoVars>>
    /\ UNCHANGED <<call, historyVars>>

\* The pool (while it opens a connection) or the UPDATE raises: the
\* exception leaves check_source.
P_UpdateFails(c) ==
    /\ probe[c].pc = "update"
    /\ Acquire
    /\ Return(c, TRUE)
    /\ UNCHANGED <<now, storeVars, refreshLoopVars, manualRefreshVars, infoVars>>
    /\ UNCHANGED <<call, historyVars>>

\* INSERT INTO check_history (token, status, http_code, error); check_at is
\* CURRENT_TIMESTAMP.  The foreign key needs the playlist's row.
P_Insert(c) ==
    /\ probe[c].pc = "insert"
    /\ probe[c].token \in DOMAIN playlists
    /\ check_history' = Append(check_history,
                               [token |-> probe[c].token, check_at |-> now,
                                status |-> probe[c].status,
                                http_code |-> probe[c].http_code,
                                error |-> probe[c].error])
    /\ Return(c, FALSE)
    /\ UNCHANGED <<now, issued, playlists, refreshLoopVars, manualRefreshVars, infoVars>>
    /\ UNCHANGED <<call, historyVars>>

\* The INSERT raises (the store fails, or the row of the playlist is gone
\* and the foreign key rejects the record): the exception leaves
\* check_source.
P_InsertFails(c) ==
    /\ probe[c].pc = "insert"
    /\ Return(c, TRUE)
    /\ UNCHANGED <<now, storeVars, refreshLoopVars, manualRefreshVars, infoVars>>
    /\ UNCHANGED <<call, historyVars>>

\* ------------------------------------------------------- source_check_task

\* The WHERE clause of the query of source_check_task.
DueForCheck(row) ==
    /\ row.source_url /= NULL
    /\ \/ row.last_check_at = NullInt
       \/ row.last_check_at < now - CHECK_PERIOD

SelectDueForCheck ==
    LET due == InKeyOrder({t \in DOMAIN playlists : DueForCheck(playlists[t])})
    IN  [i \in 1..Len(due) |-> [token |-> due[i], source_url |-> playlists[due[i]].source_url]]

\* The tick's query; with rows, check_source is called for the first.
A_Query ==
    /\ apc = "query"
    /\ Acquire
    /\ aqueue' = SelectDueForCheck
    /\ apc' = IF aqueue' = << >> THEN "sleep" ELSE "probe"
    /\ aerr' = NULL
    /\ probe' = IF aqueue' = << >> THEN probe
                ELSE [probe EXCEPT ![TickCall] =
                        StartProbe(Head(aqueue').token, Head(aqueue').source_url)]
    /\ UNCHANGED <<now, storeVars, refreshLoopVars, manualRefreshVars,
                   manualCheckVars, infoVars>>
    /\ UNCHANGED <<call, historyVars>>

\* The pool or the query raises: the `except` prints it.
A_QueryFails ==
    /\ apc = "query"
    /\ Acquire
    /\ apc' = "sleep"
    /\ aerr' = "OperationalError"
    /\ UNCHANGED <<now, storeVars, aqueue, probe, refreshLoopVars, manualRefreshVars,
                   manualCheckVars, infoVars>>
    /\ UNCHANGED <<call, historyVars>>

\* await asyncio.sleep(3600)
A_Sleep(w) ==
    /\ apc = "sleep"
    /\ Elapse(CHECK_SLEEP, w)
    /\ apc' = "query"
    /\ UNCHANGED <<storeVars, aqueue, aerr, probe, refreshLoopVars, manualRefreshVars,
                   manualCheckVars, infoVars>>
    /\ UNCHANGED <<call, historyVars>>

\* ---------------------------------------------------------- check_playlist

\* POST /api/playlist/{token}/check: the SELECT, the two checks and the call
\* of check_source.
C_Begin(token) ==
    /\ cpc = "idle"
    /\ Acquire
    /\ Len(check_history) < MaxHistory
    /\ IF token \notin DOMAIN playlists
       THEN /\ cresp' = [NoCheckResponse EXCEPT !.code = "404"]
            /\ UNCHANGED <<cpc, probe>>
       ELSE IF ~Truthy(playlists[token].source_url)
            THEN /\ cresp' = [NoCheckResponse EXCEPT !.code = "400"]
                 /\ UNCHANGED <<cpc, probe>>
            ELSE /\ cpc' = "wait"
                 /\ cresp' = NoCheckResponse
                 /\ probe' = [probe EXCEPT ![ManualCall] =
                                StartProbe(token, playlists[token].source_url)]
    /\ UNCHANGED <<now, storeVars, refreshLoopVars, checkLoopVars, manualRefreshVars,
                   infoVars, checks>>
    /\ UNCHANGED <<call, historyVars>>

\* One more POST /api/playlist/{token}/check while others are in flight.  It
\* is followed as far as the pool is concerned: it has the connection of
\* get_db and its row, and check_source is entered.
C_More(token) ==
    /\ Acquire
    /\ token \in DOMAIN playlists
    /\ Truthy(playlists[token].source_url)
    /\ Len(check_history) + SumOver(checks, Tokens) < MaxChecks
    /\ checks' = [checks EXCEPT ![token] = @ + 1]
    /\ UNCHANGED <<now, storeVars, refreshLoopVars, checkLoopVars, probe,
                   manualRefreshVars, cpc, cresp, infoVars>>
    /\ UNCHANGED <<call, historyVars>>

\* The HEAD of one of them is over and check_source has its connection: its
\* UPDATE and its INSERT (taken as one step), then the response; both
\* connections are back in the pool.  Without the row the INSERT is
\* rejected and nothing is written.
C_MoreEnds(token, w) ==
    /\ checks[token] > 0
    /\ Acquire
    /\ \E o \in HeadOutcomes(IF token \in DOMAIN playlists
                              THEN playlists[token].source_url ELSE NULL, w) :
         /\ playlists' = UpdateRow(token, [last_status |-> o.status,
                                           last_check_at |-> now,
                                           last_error |-> o.error])
         /\ check_history' = IF token \in DOMAIN playlists
                             THEN Append(check_history,
                                         [token |-> token, check_at |-> now,
                                          status |-> o.status,
                                          http_code |-> o.http_code,
                                          error |-> o.error])
                             ELSE check_history
    /\ checks' = [checks EXCEPT ![token] = @ - 1]
    /\ UNCHANGED <<now, issued, refreshLoopVars, checkLoopVars, probe,
                   manualRefreshVars, cpc, cresp, infoVars>>
    /\ UNCHANGED <<call, historyVars>>

\* The pool or a statement of check_source raises: a 500, nothing written.
C_MoreFails(token) ==
    /\ checks[token] > 0
    /\ Acquire
    /\ checks' = [checks EXCEPT ![token] = @ - 1]
    /\ UNCHANGED <<now, storeVars, refreshLoopVars, checkLoopVars, probe,
                   manualRefreshVars, cpc, cresp, infoVars>>
    /\ UNCHANGED <<call, historyVars>>

\* ------------------------------------------------------- get_playlist_info

\* GET /api/playlist/{token}: the SELECT of the row.
I_Begin(token) ==
    /\ ipc = "idle"
    /\ Acquire
    /\ IF token \notin DOMAIN playlists
       THEN /\ iresp' = [NoInfo EXCEPT !.code = "404"]
            /\ UNCHANGED <<ipc, iview>>
       ELSE /\ ipc' = "history"
            /\ iview' = [token |-> token,
                         row |-> [f \in InfoFields |-> playlists[token][f]]]
            /\ iresp' = NoInfo
    /\ UNCHANGED <<now, storeVars, refreshLoopVars, checkLoopVars, probe,
                   manualRefreshVars, manualCheckVars>>
    /\ UNCHANGED <<call, historyVars>>

\* The records of check_history of a token, newest first, at most `limit`.
RECURSIVE NewestFirst(_, _, _)
NewestFirst(history, token, limit) ==
    IF history = << >> \/ limit = 0 THEN << >>
    ELSE LET last == history[Len(history)]
             rest == SubSeq(history, 1, Len(history) - 1)
         IN  IF last.token = token
             THEN <<last>> \o NewestFirst(rest, token, limit - 1)
             ELSE NewestFirst(rest, token, limit)

\* SELECT ... FROM check_history WHERE token ORDER BY check_at DESC LIMIT
\* 10, and the response.
I_History ==
    /\ ipc = "history"
    /\ ipc' = "idle"
    /\ iresp' = [code |-> "200", playlist |-> iview,
                 check_history |-> NewestFirst(check_history, iview.token, HISTORY_LIMIT)]
    /\ UNCHANGED <<now, storeVars, iview, refreshLoopVars, checkLoopVars, probe,
                   manualRefreshVars, manualCheckVars>>
    /\ UNCHANGED <<call, historyVars>>

\* ------------------------------------------------- calls of the helpers

\* apply_rules(content, rules) is called.
ApplyCall(content, rules) ==
    [NoCall EXCEPT !.fn = "apply_rules", !.pc = "called",
                   !.content = content, !.rules = rules]

\* It returns the rewritten text, or an exception leaves it.
F_Apply ==
    /\ call.fn = "apply_rules" /\ call.pc = "called"
    /\ LET r == ApplyRulesText(call.content, call.rules)
       IN  call' = [call EXCEPT !.pc = IF r.raised THEN "raised" ELSE "returned",
                                !.text = r.text]
    /\ UNCHANGED <<now, storeVars, refreshLoopVars, checkLoopVars, probe,
                   manualRefreshVars, manualCheckVars, infoVars, historyVars>>

\* get_m3u_stats(content) is called.
StatsCall(content) ==
    [NoCall EXCEPT !.fn = "get_m3u_stats", !.pc = "called", !.content = content]

\* It returns.
F_Stats ==
    /\ call.fn = "get_m3u_stats" /\ call.pc = "called"
    /\ call' = [call EXCEPT !.pc = "returned", !.stats = get_m3u_stats(call.content)]
    /\ UNCHANGED <<now, storeVars, refreshLoopVars, checkLoopVars, probe,
                   manualRefreshVars, manualCheckVars, infoVars, historyVars>>

\* ----------------------------------------------------------- specifications

\* The approved user of the runs; NullInt is an anonymous caller.
Owner == 1

SmallDoc == Doc(<<"f", "o">>, 0)

\* One byte above the ceiling.
BigDoc == Doc(<<"f">>, MAX_CONTENT_SIZE)

\* A rule that makes the head one byte longer.
Widen == Rule(<<"f">>, <<"F", "F">>, FALSE, TRUE)

RefreshLoop(w) ==
    \/ R_Query
    \/ R_QueryFails
    \/ R_Fetch(w)
    \/ R_Store
    \/ R_StoreFails
    \/ R_RecordError
    \/ R_RecordErrorFails
    \/ R_Sleep(w)

ManualRefresh(w) ==
    \/ \E token \in Tokens : M_Begin(token)
    \/ M_Fetch(w)
    \/ M_Store
    \/ M_StoreFails
    \/ M_RecordError
    \/ M_RecordErrorFails

\* Spec: generate and the refresh loop.  The source serves a small document
\* or one above the ceiling, or the GET fails.
TickWorld == World({SmallDoc, BigDoc}, {"ReadTimeout", "HTTPStatusError"}, {200},
                   {0, 1}, MaxTime, TRUE)

TickRequests ==
    {GenerateRequest(SmallDoc, << >>, source_url, NULL, auto_update, MIN_INTERVAL, FALSE) :
        source_url \in {NULL, "", "http://source"}, auto_update \in BOOLEAN}

Next ==
    \/ \E data \in TickRequests : generate_playlist(data, NullInt)
    \/ RefreshLoop(TickWorld)

Spec == Init /\ [][Next]_vars

\* SpecRace: refresh_playlist next to the refresh loop, on playlists that are
\* due at once.  The source serves one of two documents, or the GET times
\* out; a request is answered at once or takes as long as the loop sleeps.
OtherDoc == Doc(<<"F", "o", "o">>, 0)

RaceWorld == World({SmallDoc, OtherDoc}, {"ReadTimeout"}, {200}, {0, REFRESH_SLEEP},
                   MaxTime, TRUE)

RaceRequests ==
    {GenerateRequest(SmallDoc, rules, "http://source", NULL, TRUE, MIN_INTERVAL, FALSE) :
        rules \in {<< >>, <<Widen>>}}

NextRace ==
    \/ \E data \in RaceRequests :
          Cardinality(issued) < MaxShared /\ generate_playlist(data, NullInt)
    \/ RefreshLoop(RaceWorld)
    \/ ManualRefresh(RaceWorld)

SpecRace == Init /\ [][NextRace]_vars

\* SpecGen: generate, and update and delete by the owner, with intervals at
\* and next to the ends of the domain.
EdgeIntervals == {MIN_INTERVAL - 1, MIN_INTERVAL, MAX_INTERVAL, MAX_INTERVAL + 1}

GenRequests ==
    {GenerateRequest(SmallDoc, << >>, NULL, name, auto_update, interval, FALSE) :
        name \in {NULL, "tv"}, auto_update \in BOOLEAN, interval \in EdgeIntervals}

GenUpdates ==
    {PlaylistUpdate(name, show_on_board, auto_update, interval) :
        name \in {"None", "tv"}, show_on_board \in {"None", "True"},
        auto_update \in OptBools, interval \in EdgeIntervals \cup {NullInt}}

NextGen ==
    \/ \E data \in GenRequests : generate_playlist(data, Owner)
    \/ \E token \in Tokens, data \in GenUpdates : update_my_playlist(token, data, Owner)
    \/ \E token \in Tokens : delete_my_playlist(token, Owner)

SpecGen == Init /\ [][NextGen]_vars

\* check_source as called by `c`.
Probe(c, w) ==
    \/ P_Head(c, w)
    \/ P_Update(c)
    \/ P_UpdateFails(c)
    \/ P_Insert(c)
    \/ P_InsertFails(c)

\* SpecProbe: generate with a source URL (and its background probe),
\* check_playlist, one call of get_playlist_info and delete by the owner.
ProbeWorld == World({}, {"ConnectTimeout"}, {200}, {0, REFRESH_SLEEP}, MaxTime, TRUE)

ProbeRequests ==
    {GenerateRequest(SmallDoc, << >>, "http://source", NULL, FALSE, DEFAULT_INTERVAL, FALSE)}

NextProbe ==
    \/ \E data \in ProbeRequests :
          Cardinality(issued) < MaxShared /\ generate_playlist(data, Owner)
    \/ \E token \in Tokens : delete_my_playlist(token, Owner)
    \/ \E token \in Tokens : C_Begin(token)
    \/ \E c \in Tokens \cup {ManualCall} : Probe(c, ProbeWorld)
    \/ \E token \in Tokens : iresp = NoInfo /\ I_Begin(token)
    \/ I_History

SpecProbe == Init /\ [][NextProbe]_vars

AvailabilityLoop(w) ==
    \/ A_Query
    \/ A_QueryFails
    \/ Probe(TickCall, w)
    \/ A_Sleep(w)

\* SpecCheck: the availability loop over a day and one more tick, on a
\* playlist generated with a source URL (and so with a background probe)
\* before the first tick is over.  A HEAD is answered at once.
CheckWorld == World({}, {"ConnectTimeout"}, {200}, {0}, CHECK_PERIOD + CHECK_SLEEP, TRUE)

NextCheck ==
    \/ \E data \in ProbeRequests :
          /\ Cardinality(issued) < MaxShared /\ now = 0
          /\ generate_playlist(data, Owner)
    \/ \E token \in Tokens : Probe(token, CheckWorld)
    \/ AvailabilityLoop(CheckWorld)

SpecCheck == Init /\ [][NextCheck]_vars

\* SpecLive: the two loops for ever, on playlists generated with a source
\* URL and autoUpdate, next to check_playlist requests that arrive while
\* others are in flight.  Time is left out: the clock stays at 0, so that a
\* playlist is due until a tick has written its attempt or its probe.
\* Requests arrive or not.  Whatever is in flight goes on: each await ends
\* (a request by its timeout, a statement with its result or an error, a
\* sleep with its delay), and a caller that waits for a connection gets one
\* if connections keep coming back to the pool (strong fairness: the
\* waiters of the pool's condition are woken first come, first served).
LiveWorld == World({SmallDoc}, {"HTTPStatusError"}, {200}, {0}, 0, FALSE)

LiveRequests ==
    {GenerateRequest(SmallDoc, << >>, "http://source", NULL, TRUE, MIN_INTERVAL, FALSE)}

MoreChecks(w) ==
    \/ \E token \in Tokens : C_MoreEnds(token, w)
    \/ \E token \in Tokens : C_MoreFails(token)

NextLive ==
    \/ \E data \in LiveRequests :
          Cardinality(issued) < MaxShared /\ generate_playlist(data, NullInt)
    \/ \E token \in Tokens : C_More(token)
    \/ MoreChecks(LiveWorld)
    \/ RefreshLoop(LiveWorld)
    \/ AvailabilityLoop(LiveWorld)

SpecLive ==
    /\ Init /\ [][NextLive]_vars
    /\ SF_vars(RefreshLoop(LiveWorld))
    /\ SF_vars(AvailabilityLoop(LiveWorld))
    /\ SF_vars(MoreChecks(LiveWorld))

\* SpecSweep: availability ticks over as many playlists as there are tokens,
\* generated with a source URL (and so each with a background probe), which
\* the owner may delete at any moment.  Time is left out (the clock stays
\* at 0): a playlist is due until a probe has written its row.
SweepWorld == World({}, {"ConnectTimeout"}, {200}, {0}, 0, FALSE)

NextSweep ==
    \/ \E data \in ProbeRequests : generate_playlist(data, Owner)
    \/ \E token \in Tokens : delete_my_playlist(token, Owner)
    \/ \E token \in Tokens : Probe(token, SweepWorld)
    \/ AvailabilityLoop(SweepWorld)

SpecSweep == Init /\ [][NextSweep]_vars

\* SpecRules: the refresh loop on playlists generated with rules of every
\* branch of apply_rules: none, a literal one, a literal one that ignores
\* case, one of the latter whose replacement is no template of `re`, and a
\* regex that does not compile.  The source serves one of two documents, or
\* the GET times out; a request is answered at once.
Fold == Rule(<<"f">>, <<"X">>, FALSE, FALSE)

BadTemplate == Rule(<<"f">>, <<"\\", "1">>, FALSE, FALSE)

BadRegex == Rule(<<"(">>, <<"X">>, TRUE, TRUE)

RulesWorld == World({SmallDoc, OtherDoc}, {"ReadTimeout"}, {200}, {0}, MaxTime, TRUE)

RulesRequests ==
    {GenerateRequest(SmallDoc, rules, "http://source", NULL, TRUE, MIN_INTERVAL, FALSE) :
        rules \in {<< >>, <<Widen>>, <<Fold>>, <<BadTemplate>>, <<BadRegex, Fold>>}}

NextRules ==
    \/ \E data \in RulesRequests :
          Cardinality(issued) < MaxShared /\ generate_playlist(data, NullInt)
    \/ RefreshLoop(RulesWorld)

SpecRules == Init /\ [][NextRules]_vars

\* SpecHead: check_playlist, and the background probe of generate, on a
\* source that answers 200, 204 or 404, refuses the connection or lets the
\* HEAD time out.  Time is left out.
HeadWorld == World({}, {"ConnectTimeout", "ConnectError"}, {200, 204, 404}, {0}, 0, FALSE)

NextHead ==
    \/ \E data \in ProbeRequests :
          Cardinality(issued) < MaxShared /\ generate_playlist(data, Owner)
    \/ \E token \in Tokens : C_Begin(token)
    \/ \E c \in Tokens \cup {ManualCall} : Probe(c, HeadWorld)

SpecHead == Init /\ [][NextHead]_vars

\* SpecApply: one call of apply_rules on a short text, with at most
\* MaxRules rules of every branch: patterns that are empty, literal, or no
\* regex; replacements that are plain text, a group reference, an escaped
\* backslash, or a lone backslash.
ApplyTexts == {<<"f", "o", "o", " ", "F", "O", "O", " ", "f", "O", "o">>,
               <<"F", "o", "o", "(">>,
               <<"X">>}

ApplySearches == {<< >>, <<"F", "o", "o">>, <<"(">>, <<"o">>}

ApplyReplaces == {<<"X">>, <<"\\", "1">>, <<"\\", "\\">>, <<"\\">>}

ApplyRuleInputs ==
    {Rule(search, replace, is_regex, case_sensitive) :
        search \in ApplySearches, replace \in ApplyReplaces,
        is_regex \in BOOLEAN, case_sensitive \in BOOLEAN}

RECURSIVE RuleLists(_)
RuleLists(n) ==
    IF n = 0 THEN {<< >>}
    ELSE LET shorter == RuleLists(n - 1)
         IN  shorter \cup {Append(rules, rule) : rules \in shorter, rule \in ApplyRuleInputs}

InitApply ==
    /\ Started
    /\ call \in {ApplyCall(content, rules) :
                    content \in ApplyTexts, rules \in RuleLists(MaxRules)}

NextApply == F_Apply

SpecApply == InitApply /\ [][NextApply]_vars

\* SpecStats: one call of get_m3u_stats on a document of at most MaxLen
\* marks.
RECURSIVE MarkSeqs(_)
MarkSeqs(n) ==
    IF n = 0 THEN {<< >>}
    ELSE LET shorter == MarkSeqs(n - 1)
         IN  shorter \cup {Append(d, m) : d \in shorter, m \in StatsMarks}

InitStats ==
    /\ Started
    /\ call \in {StatsCall(content) : content \in MarkSeqs(MaxLen)}

NextStats == F_Stats

SpecStats == InitStats /\ [][NextStats]_vars

\* SpecBackoff: the refresh loop on playlists whose interval is one or two
\* sleeps of the loop, on the source of Spec.
BackoffRequests ==
    {GenerateRequest(SmallDoc, << >>, "http://source", NULL, TRUE, interval, FALSE) :
        interval \in {MIN_INTERVAL, 2 * REFRESH_SLEEP}}

NextBackoff ==
    \/ \E data \in BackoffRequests :
          Cardinality(issued) < MaxShared /\ generate_playlist(data, NullInt)
    \/ RefreshLoop(TickWorld)

SpecBackoff == Init /\ [][NextBackoff]_vars

\* SpecFrame: what refreshes or probes a playlist, together: the refresh
\* loop, refresh_playlist and check_source (as the background probe of
\* generate), on one playlist generated with or without rules.  Time is
\* left out, as in SpecLive.
NextFrame ==
    \/ \E data \in RaceRequests : issued = {} /\ generate_playlist(data, Owner)
    \/ RefreshLoop(LiveWorld)
    \/ ManualRefresh(LiveWorld)
    \/ \E token \in Tokens : Probe(token, LiveWorld)

SpecFrame == Init /\ [][NextFrame]_vars

\* SpecSteady: the refresh loop with a store whose statements succeed, next
\* to check_playlist requests that arrive while others are in flight.  Time
\* is left out and fairness is as in SpecLive: each fetch returns, each
\* statement is answered, and a caller that waits for a connection gets one
\* if connections keep coming back to the pool.
RefreshTick(w) ==
    \/ R_Query
    \/ R_Fetch(w)
    \/ R_Store
    \/ R_RecordError
    \/ R_Sleep(w)

NextSteady ==
    \/ \E data \in LiveRequests :
          Cardinality(issued) < MaxShared /\ generate_playlist(data, NullInt)
    \/ \E token \in Tokens : C_More(token)
    \/ \E token \in Tokens : C_MoreEnds(token, LiveWorld)
    \/ RefreshTick(LiveWorld)

SpecSteady ==
    /\ Init /\ [][NextSteady]_vars
    /\ SF_vars(RefreshTick(LiveWorld))
    /\ SF_vars(\E token \in Tokens : C_MoreEnds(token, LiveWorld))

\* ------------------------------------------------------------------- claims

TokensOf(queue) == {queue[i].token : i \in 1..Len(queue)}

\* A step of auto_update_task in which its query returned its rows.
RefreshQueryReturns == rpc = "query" /\ rpc' /= "query" /\ rres' = NoResult

\* A step in which auto_update_task writes the outcome of the attempt on the
\* row at the head of its list.
RefreshWrites == rpc \in {"store", "record_error"} /\ rres' = NoResult

\* A step in which refresh_playlist answers after its write on token t.
ManualRefreshWrites(t) ==
    mpc \in {"store", "record_error"} /\ mresp' \in {"200", "400"} /\ msnap.token = t

\* What an attempt that ended as `a` leaves in a row: its time, its error
\* (none after a success) and, after a success, its content.
Outcome(a, row) ==
    /\ row.last_update_at = a.at
    /\ row.update_error = (IF a.ok THEN NULL ELSE a.err)
    /\ a.ok => row.content_m3u = a.doc

\* C1: when a manual refresh and a scheduled refresh ran concurrently on the
\* same token and both have written, (currentContent, lastUpdateAt,
\* lastUpdateError) of the playlist are the complete outcome of one of the
\* two attempts, never fields of both.
C1_OneOutcome ==
    \A t \in DOMAIN playlists :
        /\ mAtt.phase = "done" /\ mAtt.token = t /\ mAtt.raced
        /\ sAtt[t].phase = "done" /\ sAtt[t].raced
        => Outcome(mAtt, playlists[t]) \/ Outcome(sAtt[t], playlists[t])

\* C6: refresh_playlist obeys the persist contract of a scheduled cycle: on
\* success it stores the fetched content with the stored rules applied,
\* sets lastUpdateAt = now and clears lastUpdateError; on a fetch failure it
\* answers with an error and records lastUpdateError together with
\* lastUpdateAt = now, leaving currentContent unchanged.
C6_Step ==
    \A t \in DOMAIN playlists :
        ManualRefreshWrites(t) /\ (mres.ok \/ mres.err \in {StrOf(e) : e \in RaceWorld.errors})
        => IF mres.ok
           THEN /\ mresp' = "200"
                /\ playlists'[t].content_m3u =
                       (IF msnap.rules_json.null THEN mres.body
                        ELSE apply_rules(mres.body, msnap.rules_json.json).doc)
                /\ playlists'[t].last_update_at = now
                /\ playlists'[t].update_error = NULL
           ELSE /\ mresp' = "400"
                /\ playlists'[t].update_error = mres.err
                /\ playlists'[t].last_update_at = now
                /\ playlists'[t].content_m3u = playlists[t].content_m3u

C6_ManualPersists == [][C6_Step]_vars

\* The fields a probe writes on the playlist are those of record h.
SameProbe(row, h) ==
    /\ h.check_at = row.last_check_at
    /\ h.status = row.last_status
    /\ h.error = row.last_error

\* C2: a probe appends its CheckRecord and updates lastStatus, lastCheckAt
\* and lastCheckError of the playlist as one atomic step: what info returns
\* of a playlist that exists never shows the playlist fields of a probe
\* without its CheckRecord, nor a CheckRecord on a playlist no probe has
\* written.
C2_ProbeAtomic ==
    iresp.code = "200" /\ iresp.playlist.token \in DOMAIN playlists
    => LET row == iresp.playlist.row
           history == iresp.check_history
       IN  /\ row.last_check_at /= NullInt
              => \E i \in DOMAIN history : SameProbe(row, history[i])
           /\ history /= << >> => row.last_check_at /= NullInt

\* C3: when the fetch of a Due playlist fails in a scheduled refresh tick
\* (timeout, HTTP error status, network error, oversized body), the tick
\* sets lastUpdateError to a description of the failure, sets lastUpdateAt
\* to the attempt time and leaves currentContent as it was.
C3_Step ==
    \A t \in DOMAIN playlists :
          /\ RefreshWrites
          /\ Head(rqueue).token = t
          /\ \/ rres.err \in {StrOf(e) : e \in TickWorld.errors \cup {"UnsupportedProtocol"}}
             \/ rres.ok /\ Size(rres.body) > MAX_CONTENT_SIZE
          => /\ playlists'[t].update_error /= NULL
             /\ rres.err /= NULL => playlists'[t].update_error = rres.err
             /\ playlists'[t].last_update_at = now
             /\ playlists'[t].content_m3u = playlists[t].content_m3u

C3_FetchFailureRecorded == [][C3_Step]_vars

\* C4: a scheduled refresh tick selects a playlist if and only if
\* autoUpdate = true AND sourceUrl is present AND (lastUpdateAt is null OR
\* now - lastUpdateAt >= autoUpdateInterval), the boundary
\* now - lastUpdateAt = autoUpdateInterval included.
C4_Selected(row) ==
    /\ row.auto_update
    /\ row.source_url /= NULL
    /\ \/ row.last_update_at = NullInt
       \/ now - row.last_update_at >= row.auto_update_interval

C4_Step ==
    RefreshQueryReturns
    => TokensOf(rqueue') = {t \in DOMAIN playlists : C4_Selected(playlists[t])}

C4_RefreshSelection == [][C4_Step]_vars

\* C5: within one refresh tick, a failure while processing one Due playlist
\* (fetch failure, rule/JSON failure, or a failure of the store write that
\* records the outcome) never prevents the remaining Due playlists of the
\* tick from being attempted, nor changes their order: the for loop is left
\* only after its last row, and otherwise goes on with the rest of its list.
C5_Step ==
    rpc \in {"fetch", "store", "record_error"}
    => /\ rpc' = "sleep" => Len(rqueue) = 1
       /\ rqueue' \in {rqueue, Tail(rqueue)}

C5_TickGoesOn == [][C5_Step]_vars

\* C8: in every reachable state each stored playlist has autoUpdateInterval
\* in [30, 86400]: generate with an interval outside the domain persists
\* nothing, whatever autoUpdate is, and an owner update with such an
\* interval changes no field.
C8_IntervalInDomain ==
    \A t \in DOMAIN playlists :
        /\ playlists[t].auto_update_interval >= MIN_INTERVAL
        /\ playlists[t].auto_update_interval <= MAX_INTERVAL

\* A step of source_check_task in which its query returned its rows.
CheckQueryReturns == apc = "query" /\ apc' /= "query" /\ aerr' = NULL

\* C9: an availability tick selects a playlist if and only if sourceUrl is
\* present AND (lastCheckAt is null OR now - lastCheckAt >= 24h): a playlist
\* probed at t is selected again by the tick at exactly t + 24h, and not by
\* a tick at t + 1h.
C9_Selected(row) ==
    /\ row.source_url /= NULL
    /\ \/ row.last_check_at = NullInt
       \/ now - row.last_check_at >= CHECK_PERIOD

C9_Step ==
    CheckQueryReturns
    => TokensOf(aqueue') = {t \in DOMAIN playlists : C9_Selected(playlists[t])}

C9_CheckSelection == [][C9_Step]_vars

\* C10: neither background loop ends because of an error: whatever fails in
\* a tick (the store being unavailable when the tick queries or writes
\* included), the loop sleeps its delay and starts another tick; the refresh
\* loop and the availability loop each start infinitely many ticks.
C10_LoopsGoOn ==
    /\ []<>(rpc = "sleep") /\ []<>(rpc = "query")
    /\ []<>(apc = "sleep") /\ []<>(apc = "query")

\* A step in which the call of check_source by the availability loop ends:
\* it returns, or an exception leaves it.
TickProbeEnds == apc = "probe" /\ (apc' = "sleep" \/ aqueue' /= aqueue)

\* C11: within one availability tick, a failure of the probe of one due
\* playlist (a network failure, or a failure while its result is persisted,
\* e.g. because the playlist was deleted during the probe) does not prevent
\* the remaining due playlists of that tick from being probed: when the
\* probe of a row ends, the rows after it are still to be probed.
C11_Step == TickProbeEnds => aqueue' = Tail(aqueue)

C11_ProbesIsolated == [][C11_Step]_vars

\* What the stored rules of `row` make of the fetched text `body`.
StoredRulesApplied(body, row) ==
    IF row.rules_json.null THEN body
    ELSE apply_rules(body, JsonLoads(row.rules_json)).doc

\* C12: on a successful fetch in a scheduled refresh tick, the playlist's
\* currentContent becomes apply(fetched content, the playlist's stored
\* rules) (the fetched content itself when no rules are stored),
\* lastUpdateAt becomes the attempt time and lastUpdateError becomes empty,
\* all in one store write: a fetch that returned a document is followed by
\* the write of the `try` block, and that write, on a row that is there,
\* sets exactly these three columns to these values.
C12_Step ==
    /\ (rpc = "fetch" /\ rpc' /= "fetch" /\ rres'.body /= NoDoc)
         => (rpc' = "store" /\ rres'.ok)
    /\ (rpc = "store" /\ rres' = NoResult /\ Head(rqueue).token \in DOMAIN playlists)
         => LET t == Head(rqueue).token
            IN  playlists' =
                  [playlists EXCEPT ![t] =
                     [@ EXCEPT !.content_m3u = StoredRulesApplied(rres.body, playlists[t]),
                               !.last_update_at = now,
                               !.update_error = NULL]]

C12_RefreshStores == [][C12_Step]_vars

\* A tick has stored the second document as the rule that ignores case
\* rewrites it, after an attempt that failed.
C12_Witness ==
    \E t \in DOMAIN playlists :
        /\ playlists[t].rules_json = RulesJson(<<Fold>>)
        /\ sAtt[t].phase = "done" /\ sAtt[t].ok
        /\ playlists[t].content_m3u = Doc(<<"X", "o", "o">>, 0)
        /\ playlists[t].update_error = NULL
        /\ playlists[t].last_update_at = 2 * REFRESH_SLEEP

\* What a probe may report: OK with the code 200 and no error; FAIL with
\* another code and an error; FAIL with no code and an error.
WellReported(status, http_code, error) ==
    \/ status = "OK" /\ http_code = 200 /\ error = NULL
    \/ status = "FAIL" /\ http_code /= 200 /\ Truthy(error)

\* C13: a probe reports status OK if and only if a response was received
\* whose (post-redirect) status code is exactly 200, with error absent; for
\* every other status code it reports FAIL with that httpCode and a
\* non-empty error, and for any network or timeout error it reports FAIL
\* with no httpCode and a non-empty error; the same status and error are
\* what the probe persists (in the row and in the record of check_history)
\* and what check_playlist answers.
C13_ProbeReport ==
    /\ \A c \in Callers :
          probe[c].pc \in {"update", "insert"}
          => WellReported(probe[c].status, probe[c].http_code, probe[c].error)
    /\ cresp.code = "200" => WellReported(cresp.status, cresp.http_code, cresp.error)
    /\ \A i \in 1..Len(check_history) :
          WellReported(check_history[i].status, check_history[i].http_code,
                       check_history[i].error)
    /\ \A t \in DOMAIN playlists :
          \/ playlists[t].last_status = "UNKNOWN" /\ playlists[t].last_error = NULL
          \/ playlists[t].last_status = "OK" /\ playlists[t].last_error = NULL
          \/ playlists[t].last_status = "FAIL" /\ Truthy(playlists[t].last_error)

\* A rule that apply is to pass over: an empty pattern, or a regex rule
\* whose pattern does not compile or whose substitution fails.
Skipped(rule) ==
    \/ rule.search = << >>
    \/ /\ rule.is_regex
       /\ ~ReCompile(rule.search).ok \/ ~ExpandTemplate(rule.replace).ok

\* C14: apply never raises and never aborts: for every document and every
\* rule list, a rule with an empty pattern, and a regex rule whose pattern
\* fails to compile or whose substitution fails, leaves the document
\* unchanged for that step, and all later rules are still applied in list
\* order to the result; hence apply(D, []) = D and apply(D, [r]) = D for any
\* such r.
C14_ApplyTotal ==
    (call.fn = "apply_rules" /\ call.pc /= "called")
    => /\ call.pc = "returned"
       /\ call.text = ApplyRulesText(call.content,
                                     SelectSeq(call.rules, LAMBDA r : ~Skipped(r))).text
       /\ (\A i \in 1..Len(call.rules) : Skipped(call.rules[i]))
            => call.text = call.content

\* C15: for a non-regex rule with caseSensitive = false, apply replaces
\* every case-insensitive occurrence of the literal pattern by the
\* replacement string inserted verbatim, character for character, for every
\* replacement string (those with backslashes or text that looks like a
\* group reference included), e.g. "Foo" by "X" in "foo FOO fOo" yields
\* "X X X"; and the result equals that of the case-sensitive literal branch
\* whenever all occurrences already match in case.
C15_VerbatimReplacement ==
    \A rule \in ApplyRuleInputs :
        (/\ call.fn = "apply_rules" /\ call.pc /= "called"
         /\ call.rules = <<rule>>
         /\ ~rule.is_regex /\ ~rule.case_sensitive /\ rule.search /= << >>)
        => /\ call.pc = "returned"
           /\ call.text = ReplaceAll(call.content, rule.search, rule.replace, TRUE)
           /\ ReplaceAll(call.content, rule.search, rule.replace, TRUE)
                 = ReplaceAll(call.content, rule.search, rule.replace, FALSE)
              => call.text = ApplyRule(call.content,
                                       [rule EXCEPT !.case_sensitive = TRUE]).text

\* The lines of a document that begin with the tag.
EntryLines(content) ==
    {i \in 1..Len(content) : IsExtinf(content[i]) /\ (i = 1 \/ content[i - 1] = "\n")}

\* C16: stats(document).entries equals the number of lines of the document
\* that begin with the media-entry marker (#EXTINF:, case-insensitive) at
\* line start; a marker in the middle of a line, or a second marker on the
\* same line, does not add to the count.
C16_EntriesAreLines ==
    (call.fn = "get_m3u_stats" /\ call.pc = "returned")
    => call.stats.channels = Cardinality(EntryLines(call.content))

\* C17: after a scheduled refresh attempt on a playlist at time t, whether
\* it succeeded or failed, no refresh tick selects that playlist again
\* before t + autoUpdateInterval (interval and autoUpdate unchanged, no
\* manual refresh in between): a source that keeps failing is attempted at
\* most once per interval, not once per tick.  t is the NOW() of the write
\* that ended the attempt.
C17_Step ==
    RefreshQueryReturns
    => \A t \in TokensOf(rqueue') :
          sAtt[t].phase = "done"
          => now >= sAtt[t].at + playlists[t].auto_update_interval

C17_Backoff == [][C17_Step]_vars

\* A playlist with an interval of one sleep, whose attempt at 0 failed and
\* which the tick at 30 s passed over, is fetched again by the tick at 60 s.
C17_Witness ==
    \E t \in DOMAIN playlists :
        /\ playlists[t].auto_update_interval = REFRESH_SLEEP
        /\ playlists[t].last_update_at = 0
        /\ playlists[t].update_error /= NULL
        /\ rpc = "fetch" /\ Head(rqueue).token = t
        /\ now = 2 * REFRESH_SLEEP

\* The columns generate stores and nothing is to change.
IdentityFields == {"user_id", "original_content", "rules_json", "source_url", "created_at"}

RefreshFields == {"content_m3u", "last_update_at", "update_error"}

ProbeFields == {"last_status", "last_check_at", "last_error"}

\* The rows are those of before, and only the columns `fields` may differ.
OnlyWrites(fields) ==
    /\ DOMAIN playlists' = DOMAIN playlists
    /\ \A t \in DOMAIN playlists :
          \A f \in DOMAIN playlists[t] \ fields : playlists'[t][f] = playlists[t][f]

\* A step of auto_update_task or of refresh_playlist.
RefreshStep == <<refreshLoopVars, manualRefreshVars>>' /= <<refreshLoopVars, manualRefreshVars>>

\* A step of check_source, or one in which it is called.
ProbeStep == probe' /= probe /\ issued' = issued

\* C18: scheduled refresh, manual refresh and probes never change a
\* playlist's identity or inputs: a playlist's token, ownerId,
\* originalContent, rules, sourceUrl and createdAt stay what generate
\* stored; refresh operations write only
\* currentContent/lastUpdateAt/lastUpdateError, and probes write only
\* lastStatus/lastCheckAt/lastCheckError plus one appended CheckRecord.
C18_Step ==
    /\ \A t \in DOMAIN playlists :
          /\ t \in DOMAIN playlists'
          /\ \A f \in IdentityFields : playlists'[t][f] = playlists[t][f]
    /\ RefreshStep => OnlyWrites(RefreshFields) /\ check_history' = check_history
    /\ ProbeStep
         => /\ OnlyWrites(ProbeFields)
            /\ \/ check_history' = check_history
               \/ /\ Len(check_history') = Len(check_history) + 1
                  /\ SubSeq(check_history', 1, Len(check_history)) = check_history
                  /\ playlists' = playlists

C18_Frame == [][C18_Step]_vars

\* A playlist generated with a rule has been refreshed by the loop and by
\* refresh_playlist and probed, and is still what generate stored.
C18_Witness ==
    \E t \in DOMAIN playlists :
        /\ playlists[t].rules_json = RulesJson(<<Widen>>)
        /\ playlists[t].original_content = SmallDoc
        /\ playlists[t].content_m3u /= SmallDoc
        /\ sAtt[t].phase = "done" /\ mAtt.phase = "done" /\ mAtt.token = t
        /\ playlists[t].last_status = "OK"
        /\ \E i \in 1..Len(check_history) : check_history[i].token = t

\* The connections held by operations that give theirs back only after
\* check_source has got one more: the check_playlist requests in flight and
\* an availability tick in its probe.
HeldWhileWaiting ==
    SumOver(checks, Tokens)
    + (IF cpc = "wait" /\ probe[ManualCall].pc \in {"head", "update"} THEN 1 ELSE 0)
    + (IF apc = "probe" /\ probe[TickCall].pc \in {"head", "update"} THEN 1 ELSE 0)

\* C19: a caller that finds the pool exhausted blocks rather than fails, and
\* never blocks for ever: for any number of concurrent manual checks (each
\* holds the connection of get_db while check_source acquires a second one)
\* together with an availability tick (which holds one while check_source
\* acquires another), every operation gets its connections in the end; no
\* state is reachable in which all pool connections are held by operations
\* each waiting for another connection.
C19_NoPoolDeadlock == ~(InUse = POOL_MAXSIZE /\ HeldWhileWaiting = POOL_MAXSIZE)

\* C20: given that every fetch returns (with a result or an error) within
\* its timeout and that store operations succeed, every playlist that a
\* refresh tick selected as Due and that still exists reaches Refreshed or
\* Failed (its lastUpdateAt is advanced) before that tick ends, the tick
\* ends, and the next tick starts; a playlist that stays autoUpdate = true
\* with a sourceUrl is attempted again and again (with the clock left out:
\* a playlist that is due is attempted).
C20_Step ==
    /\ (RefreshWrites /\ Head(rqueue).token \in DOMAIN playlists)
         => playlists'[Head(rqueue).token].last_update_at = now
    /\ (rpc /= "sleep" /\ rpc' = "sleep") => Len(rqueue) <= 1

C20_TicksComplete ==
    /\ [][C20_Step]_vars
    /\ (rpc /= "sleep") ~> (rpc = "sleep")
    /\ (rpc = "sleep") ~> (rpc = "query")
    /\ \A t \in Tokens :
          (t \in DOMAIN playlists /\ DueForUpdate(playlists[t]))
          ~> (t \notin DOMAIN playlists \/ ~DueForUpdate(playlists[t]))

\* A probe of token t is in flight: check_source has been entered for it
\* and has not returned.
ProbeInFlight(t) == \E c \in Callers : probe[c].pc /= "idle" /\ probe[c].token = t

\* C21: whenever no probe of a playlist is in flight, the playlist's
\* lastStatus and lastCheckError equal the status and error of its most
\* recently appended CheckRecord, also after probes of the same token
\* triggered concurrently by generate's background probe, manualCheck and
\* the availability tick have interleaved: when a probe appends its record
\* and no probe of that playlist is left in flight, the row carries the
\* status and the error of that record.
C21_Step ==
    \A t \in DOMAIN playlists' :
        (/\ Len(check_history') = Len(check_history) + 1
         /\ check_history'[Len(check_history')].token = t
         /\ ~ProbeInFlight(t)')
        => /\ playlists'[t].last_status = check_history'[Len(check_history')].status
           /\ playlists'[t].last_error = check_history'[Len(check_history')].error

C21_RowMatchesLastRecord == [][C21_Step]_vars

\* C7: in every reachable state each stored playlist's currentContent is at
\* most 5 MiB of UTF-8: generate rejects what is larger, and both refreshes
\* reject a fetched document above the ceiling instead of storing it.
C7_ContentWithinCeiling ==
    \A t \in DOMAIN playlists : Size(playlists[t].content_m3u) <= MAX_CONTENT_SIZE

====
